---- MODULE Spec2Model ----
(***************************************************************************)
(* Model of the SQL gateway service of sigur/services/mysql.py and of the  *)
(* HTTP view of sigur/views.py that calls it.                              *)
(*                                                                         *)
(* SQL text is a sequence of one-character strings, a Python value (the    *)
(* params argument) is a record [kind, items], an exception is a record    *)
(* [type, msg, ...] whose msg names the message template and whose other   *)
(* fields hold what the template interpolates.                             *)
(***************************************************************************)
EXTENDS Integers, Sequences, FiniteSets, TLC

(***************************************************************************)
(* Bounds of the model.                                                    *)
(***************************************************************************)
\* longest SQL text drawn by InitAnalyse
MaxSqlLen == 6
\* largest number of elements of a params value drawn by Init
MaxParams == 2

(***************************************************************************)
(* Characters.  The classes are those of the regular expressions, cut to   *)
(* the characters the model draws.                                         *)
(***************************************************************************)
Letters == {"a", "b", "d", "i", "s"}
Digits == {"1"}
\* [A-Za-z_]
IdentStart == Letters \cup {"_"}
\* [A-Za-z0-9_]
IdentChar == IdentStart \cup Digits

\* code point order of the characters a name is made of (Python compares
\* strings by code point)
CharCode(c) ==
    CASE c = "1" -> 49
      [] c = "_" -> 95
      [] c = "a" -> 97
      [] c = "b" -> 98
      [] c = "d" -> 100
      [] c = "i" -> 105
      [] c = "s" -> 115
      [] OTHER -> 0

\* str.__lt__ : lexicographic comparison of two strings
RECURSIVE StrLess(_, _)
StrLess(a, b) ==
    IF b = <<>> THEN FALSE
    ELSE IF a = <<>> THEN TRUE
    ELSE IF CharCode(Head(a)) # CharCode(Head(b))
         THEN CharCode(Head(a)) < CharCode(Head(b))
         ELSE StrLess(Tail(a), Tail(b))

\* the least string of a non-empty set
MinStr(S) == CHOOSE x \in S : \A y \in S : y = x \/ StrLess(x, y)

\* a faulty variant of sorted: the names in descending order
RECURSIVE sorted_descending(_)
sorted_descending(S) ==
    IF S = {} THEN <<>>
    ELSE LET m == MinStr(S) IN sorted_descending(S \ {m}) \o <<m>>

\* sorted(iterable) over a collection of distinct strings
RECURSIVE sorted(_)
sorted(S) ==
    IF S = {} THEN <<>>
    ELSE LET m == MinStr(S) IN <<m>> \o sorted(S \ {m})

(***************************************************************************)
(* Python values and exceptions.                                           *)
(***************************************************************************)
\* an element of a container: k is the key of a mapping entry (<<>> for an
\* element of a list, tuple or str), v the value
Item(k, v) == [k |-> k, v |-> v]
None == [kind |-> "None", items |-> <<>>]
PyDict(items) == [kind |-> "dict", items |-> items]
PyList(items) == [kind |-> "list", items |-> items]
PyTuple(items) == [kind |-> "tuple", items |-> items]
PyStr(items) == [kind |-> "str", items |-> items]

\* isinstance(v, Mapping)
IsMapping(v) == v.kind = "dict"
\* a faulty variant of IsPlainSequence: a str passes for a sequence of values
IsAnySequence(v) == v.kind \in {"list", "tuple", "str"}

\* isinstance(v, Sequence) and not isinstance(v, (str, bytes))
IsPlainSequence(v) == v.kind \in {"list", "tuple"}
\* bool(v) of None and of the containers
Truthy(v) == v.kind # "None" /\ Len(v.items) > 0
Keys(v) == {v.items[i].k : i \in 1..Len(v.items)}
\* list(params.values()) and list(params): the values in iteration order
Values(v) == [i \in 1..Len(v.items) |-> Item(<<>>, v.items[i].v)]

NoExc ==
    [type |-> "none", msg |-> "", counts |-> <<>>, names |-> <<>>,
     missing_params |-> <<>>, env_names |-> <<>>, diag |-> ""]
Raise(type, msg) == [NoExc EXCEPT !.type = type, !.msg = msg]

(***************************************************************************)
(* The three placeholder patterns.                                         *)
(***************************************************************************)
\* [A-Za-z0-9_]* from position i, greedy: the position of its last character
RECURSIVE IdentRunEnd(_, _)
IdentRunEnd(s, i) ==
    IF i <= Len(s) /\ s[i] \in IdentChar THEN IdentRunEnd(s, i + 1) ELSE i - 1

\* COLON_PARAM_PATTERN at position i: the end of the match, 0 for no match
COLON_PARAM_PATTERN(s, i) ==
    IF /\ s[i] = ":"
       /\ (i = 1 \/ s[i - 1] # ":")
       /\ i + 1 <= Len(s)
       /\ s[i + 1] \in IdentStart
    THEN IdentRunEnd(s, i + 1)
    ELSE 0

\* NAMED_PARAM_PATTERN at position i: the end of the match, 0 for no match
NAMED_PARAM_PATTERN(s, i) ==
    IF /\ s[i] = "%"
       /\ i + 2 <= Len(s)
       /\ s[i + 1] = "("
       /\ s[i + 2] \in IdentStart
    THEN LET e == IdentRunEnd(s, i + 2)
         IN IF e + 2 <= Len(s) /\ s[e + 1] = ")" /\ s[e + 2] = "s"
            THEN e + 2 ELSE 0
    ELSE 0

\* POSITIONAL_PARAM_PATTERN at position i
POSITIONAL_PARAM_PATTERN(s, i) ==
    /\ s[i] = "%"
    /\ (i = 1 \/ s[i - 1] # "%")
    /\ i + 1 <= Len(s)
    /\ s[i + 1] # "("
    /\ s[i + 1] = "s"

\* COLON_PARAM_PATTERN.sub(lambda m: f"%({m.group('name')})s", s), from i on
RECURSIVE ColonSub(_, _)
ColonSub(s, i) ==
    IF i > Len(s) THEN <<>>
    ELSE LET e == COLON_PARAM_PATTERN(s, i)
         IN IF e > 0
            THEN <<"%", "(">> \o SubSeq(s, i + 1, e) \o <<")", "s">>
                 \o ColonSub(s, e + 1)
            ELSE <<s[i]>> \o ColonSub(s, i + 1)

\* {m.group('name') for m in NAMED_PARAM_PATTERN.finditer(s)}, from i on
RECURSIVE NamedFinditer(_, _)
NamedFinditer(s, i) ==
    IF i > Len(s) THEN {}
    ELSE LET e == NAMED_PARAM_PATTERN(s, i)
         IN IF e > 0
            THEN {SubSeq(s, i + 2, e - 2)} \cup NamedFinditer(s, e + 1)
            ELSE NamedFinditer(s, i + 1)

extract_named_params(raw_sql) == NamedFinditer(raw_sql, 1)

\* len(POSITIONAL_PARAM_PATTERN.findall(s)), from i on
RECURSIVE PositionalFindall(_, _)
PositionalFindall(s, i) ==
    IF i > Len(s) THEN 0
    ELSE IF POSITIONAL_PARAM_PATTERN(s, i)
         THEN 1 + PositionalFindall(s, i + 2)
         ELSE PositionalFindall(s, i + 1)

\* the result of a call: exc is NoExc when it returns
Analysis(exc, sql, named, count) ==
    [exc |-> exc, normalised_sql |-> sql, named_params |-> named,
     positional_count |-> count]

analyse_placeholders(raw_sql) ==
    LET normalised_sql == ColonSub(raw_sql, 1)
        named_params == extract_named_params(normalised_sql)
        positional_count == PositionalFindall(normalised_sql, 1)
    IN IF named_params # {} /\ positional_count # 0
       THEN Analysis(Raise("MySQLParameterError", "mixed"), <<>>, {}, 0)
       ELSE Analysis(NoExc, normalised_sql, named_params, positional_count)

(***************************************************************************)
(* _validate_params.  A call returns [exc, value]: exc is NoExc when the   *)
(* call returns value.                                                     *)
(***************************************************************************)
Returned(value) == [exc |-> NoExc, value |-> value]
Raised(exc) == [exc |-> exc, value |-> None]

_validate_params(normalised_sql, required_named_params, positional_count, params) ==
    IF positional_count # 0
    THEN IF params.kind = "None"
         THEN Raised([Raise("MySQLParameterError", "positional_none_sent")
                      EXCEPT !.counts = <<positional_count>>])
         ELSE IF ~IsMapping(params) /\ ~IsPlainSequence(params)
         THEN Raised(Raise("MySQLParameterError", "positional_needs_sequence"))
         ELSE LET ordered_values == Values(params)
              IN IF Len(ordered_values) # positional_count
                 THEN Raised([Raise("MySQLParameterError", "positional_count_mismatch")
                              EXCEPT !.counts = <<positional_count, Len(ordered_values)>>])
                 ELSE Returned(PyTuple(ordered_values))
    ELSE IF required_named_params = {}
    THEN IF Truthy(params)
         THEN IF IsMapping(params)
              THEN Raised([Raise("MySQLParameterError", "no_params_accepted")
                           EXCEPT !.names = sorted(Keys(params))])
              ELSE Raised([Raise("MySQLParameterError", "no_params_accepted")
                           EXCEPT !.counts = <<Len(params.items)>>])
         ELSE Returned(None)
    ELSE IF params.kind = "None"
    THEN LET missing_sorted == sorted(required_named_params)
         IN Raised([Raise("MySQLParameterError", "named_none_sent")
                    EXCEPT !.names = missing_sorted,
                           !.missing_params = missing_sorted])
    ELSE IF ~IsMapping(params)
    THEN Raised(Raise("MySQLParameterError", "named_needs_mapping"))
    ELSE LET missing == {name \in required_named_params : name \notin Keys(params)}
         IN IF missing # {}
            THEN LET missing_sorted == sorted(missing)
                 IN Raised([Raise("MySQLParameterError", "named_missing")
                            EXCEPT !.names = missing_sorted,
                                   !.missing_params = missing_sorted])
            ELSE Returned(params)

(***************************************************************************)
(* MySQLDatabase and _collect_config.  The environment is a function from  *)
(* the names of the variables that are set to their values; an optional    *)
(* string (str | None) is <<>> for None and <<s>> for the string s.        *)
(***************************************************************************)
MAIN == [enum |-> TRUE, name |-> "MAIN", value |-> "main"]
LOG == [enum |-> TRUE, name |-> "LOG", value |-> "log"]
MySQLDatabase == {MAIN, LOG}
\* a plain string given where a member is expected
PlainStr(s) == [enum |-> FALSE, name |-> "", value |-> s]

\* MySQLDatabase.from_value: [exc, value]
from_value(value) ==
    IF \E m \in MySQLDatabase : m.value = value.value
    THEN [exc |-> NoExc,
          value |-> CHOOSE m \in MySQLDatabase : m.value = value.value]
    ELSE [exc |-> Raise("MySQLConfigurationError", "unknown_database"),
          value |-> value]

\* os.getenv(key, default)
getenv(environ, key, default) ==
    IF key \in DOMAIN environ THEN <<environ[key]>> ELSE default

specific_key(target, key) == "MYSQL_" \o target.name \o "_" \o key
generic_key(key) == "MYSQL_" \o key

\* a faulty variant of _get_env: a gap is reported under the generic name only
get_env_generic_only(environ, target, key, default, required) ==
    LET value == getenv(environ, specific_key(target, key), <<>>)
        fallback == getenv(environ, generic_key(key), default)
    IN IF value # <<>> /\ value # <<"">>
       THEN [value |-> value, missing |-> <<>>]
       ELSE IF fallback # <<>> /\ fallback # <<"">>
       THEN [value |-> fallback, missing |-> <<>>]
       ELSE [value |-> fallback,
             missing |-> IF required THEN <<generic_key(key)>> ELSE <<>>]

\* _get_env: the value, and what the call appends to missing
_get_env(environ, target, key, default, required) ==
    LET value == getenv(environ, specific_key(target, key), <<>>)
        fallback == getenv(environ, generic_key(key), default)
    IN IF value # <<>> /\ value # <<"">>
       THEN [value |-> value, missing |-> <<>>]
       ELSE IF fallback # <<>> /\ fallback # <<"">>
       THEN [value |-> fallback, missing |-> <<>>]
       ELSE [value |-> fallback,
             missing |-> IF required
                         THEN <<specific_key(target, key), generic_key(key)>>
                         ELSE <<>>]

\* int(port_raw) on the port texts the model draws: <<>> for ValueError
int(port_raw) ==
    CASE port_raw = "3306" -> <<3306>>
      [] port_raw = "3307" -> <<3307>>
      [] OTHER -> <<>>

MySQLConfig(host, user, password, database, port, charset) ==
    [host |-> host, user |-> user, password |-> password,
     database |-> database, port |-> port, charset |-> charset]
NoConfig == MySQLConfig("", "", "", "", 0, "")

\* x or default
OrElse(opt, default) == IF opt = <<>> \/ opt = <<"">> THEN default ELSE opt[1]

_collect_config(environ, target) ==
    LET host == _get_env(environ, target, "HOST", <<>>, TRUE)
        user == _get_env(environ, target, "USER", <<>>, TRUE)
        database == _get_env(environ, target, "DATABASE", <<>>, TRUE)
        missing == host.missing \o user.missing \o database.missing
    IN IF missing # <<>>
       THEN [exc |-> [Raise("MySQLConfigurationError", "incomplete")
                      EXCEPT !.env_names = missing],
             config |-> NoConfig]
       ELSE LET password == _get_env(environ, target, "PASSWORD", <<"">>, FALSE)
                port_raw == OrElse(_get_env(environ, target, "PORT", <<"3306">>, FALSE).value, "3306")
                charset == OrElse(_get_env(environ, target, "CHARSET", <<"utf8mb4">>, FALSE).value, "utf8mb4")
                port == int(port_raw)
            IN IF port = <<>>
               THEN [exc |-> [Raise("MySQLConfigurationError", "port_not_integer")
                              EXCEPT !.diag = port_raw],
                     config |-> NoConfig]
               ELSE [exc |-> NoExc,
                     config |-> MySQLConfig(host.value[1], user.value[1],
                                            password.value[1], database.value[1],
                                            port[1], charset)]

(***************************************************************************)
(* State: one call of execute_raw_sql, made directly (entry "service") or  *)
(* by SqlRetrieveView.get (entry "view").                                  *)
(***************************************************************************)
VARIABLES
    entry,                  \* "service" or "view"
    sql_object,             \* the view's Sql row: [raw, database]
    query_params,           \* the view's request.query_params
    raw_sql,                \* the arguments of execute_raw_sql ...
    arg_params,             \* ... params as passed
    arg_target,             \* ... target as passed
    environ,                \* os.environ
    pc,                     \* the position in the code
    target,                 \* locals of execute_raw_sql
    normalised_sql,
    required_named_params,
    positional_count,
    params,                 \* params once line 249 has reassigned it
    config,
    connection,             \* "none", "open" or "closed"
    cursor,                 \* what the cursor reports after execute
    driver,                 \* the driver calls made so far, in order
    exc,                    \* the exception in flight, or NoExc
    result,                 \* the value returned
    required_params,        \* locals of the view
    positional_params_count,
    response                \* what the view answers

vars ==
    <<entry, sql_object, query_params, raw_sql, arg_params, arg_target, environ,
      pc, target, normalised_sql, required_named_params, positional_count,
      params, config, connection, cursor, driver, exc, result, required_params,
      positional_params_count, response>>

inputs == <<entry, sql_object, query_params, environ>>
arguments == <<raw_sql, arg_params, arg_target>>
analysed == <<normalised_sql, required_named_params, positional_count>>
view_locals == <<required_params, positional_params_count, response>>

(***************************************************************************)
(* The driver.  A call into pymysql succeeds, raises a MySQLError or       *)
(* raises some other exception; which, is the environment's choice.        *)
(***************************************************************************)
DriverOutcomes == {"ok", "MySQLError", "Exception"}
\* the MySQLError a driver call raises: diag is its diagnostic, exc.args[1]
DriverError(op) == [Raise("MySQLError", "driver") EXCEPT !.diag = op \o " failed"]
OtherError(op) == [Raise("Exception", "other") EXCEPT !.diag = op \o " broke"]
Thrown(outcome, op) == IF outcome = "MySQLError" THEN DriverError(op) ELSE OtherError(op)

\* one entry of the driver log: the call and how it ended
Call(op, has_args, args, outcome) ==
    [op |-> op, has_args |-> has_args, args |-> args, outcome |-> outcome]
NoCursor == [description |-> FALSE, rowcount |-> 0, lastrowid |-> 0]
NoResult == [type |-> "none", rowcount |-> 0, lastrowid |-> 0]
NoResponse ==
    [kind |-> "none", detail |-> NoExc, required_params |-> <<>>,
     positional_params_count |-> 0, has_missing_params |-> FALSE,
     missing_params |-> <<>>, data |-> NoResult]

(***************************************************************************)
(* The inputs the model draws.                                             *)
(***************************************************************************)
SqlTexts ==
    { <<"d">>,                                  \* no placeholder
      <<"%", "(", "a", ")", "s">>,              \* %(a)s
      <<":", "a">>,                             \* :a
      <<"%", "(", "b", ")", "s", ":", "a">>,    \* %(b)s:a
      <<":", "a", ":", "a">>,                   \* :a:a
      <<"%", "s">>,                             \* %s
      <<"%", "s", "%", "s">>,                   \* %s%s
      <<"%", "s", ":", "a">>,                   \* %s:a
      <<"%", "%", "s">> }                       \* %%s

ParamNames == {<<"a">>, <<"b">>}
ParamValue(name) == IF name = <<"a">> THEN "x" ELSE "y"

\* the sequences of at most n elements of S
SeqsUpTo(S, n) == UNION {[1..k -> S] : k \in 0..n}
Distinct(q) == \A i, j \in 1..Len(q) : i # j => q[i] # q[j]

Dicts ==
    {PyDict([i \in 1..Len(q) |-> Item(q[i], ParamValue(q[i]))]) :
        q \in {r \in SeqsUpTo(ParamNames, MaxParams) : Distinct(r)}}
Lists ==
    {PyList([i \in 1..Len(q) |-> Item(<<>>, q[i])]) :
        q \in SeqsUpTo({"x", "y"}, MaxParams)}
Strs == {PyStr(<<>>), PyStr(<<Item(<<>>, "x"), Item(<<>>, "y")>>)}
ParamValues == {None} \cup Dicts \cup Lists \cup Strs

Targets == MySQLDatabase \cup {PlainStr("main"), PlainStr("archive")}

Keys3 == {"HOST", "USER", "DATABASE"}
\* os.environ with the variables of S set to a text naming the variable
EnvOf(S, empty) == [k \in S \cup empty |-> IF k \in empty THEN "" ELSE "value of " \o k]
GenericEnv == EnvOf({generic_key(k) : k \in Keys3}, {})
Environs ==
    { GenericEnv,
      EnvOf({generic_key("USER"), generic_key("DATABASE")}, {generic_key("HOST")}),
      EnvOf({generic_key(k) : k \in Keys3} \cup {specific_key(MAIN, "HOST")}, {}) }

InitLocals ==
    /\ pc = IF entry = "view" THEN "view" ELSE "start"
    /\ target = arg_target
    /\ normalised_sql = <<>>
    /\ required_named_params = {}
    /\ positional_count = 0
    /\ params = arg_params
    /\ config = NoConfig
    /\ connection = "none"
    /\ cursor = NoCursor
    /\ driver = <<>>
    /\ exc = NoExc
    /\ result = NoResult
    /\ required_params = <<>>
    /\ positional_params_count = 0
    /\ response = NoResponse

InitService ==
    /\ entry = "service"
    /\ sql_object = [raw |-> <<>>, database |-> ""]
    /\ query_params = None
    /\ raw_sql \in SqlTexts
    /\ arg_params \in ParamValues
    /\ arg_target \in Targets
    /\ environ \in Environs

InitView ==
    /\ entry = "view"
    /\ sql_object \in [raw : SqlTexts, database : {"main", "log", "archive"}]
    /\ query_params \in Dicts
    /\ raw_sql = <<>>
    /\ arg_params = None
    /\ arg_target = MAIN
    /\ environ \in Environs

Init == (InitService \/ InitView) /\ InitLocals

(***************************************************************************)
(* execute_raw_sql, one action per step.                                   *)
(***************************************************************************)
\* lines 245-246.  MySQLDatabase is a str subclass, so from_value is called
\* for a member as for a plain string.
ResolveTarget ==
    /\ pc = "start"
    /\ LET r == from_value(target)
       IN /\ target' = r.value
          /\ exc' = r.exc
          /\ pc' = IF r.exc = NoExc THEN "analyse" ELSE "raised"
    /\ UNCHANGED <<inputs, arguments, analysed, params, config, connection,
                   cursor, driver, result, view_locals>>

\* line 248
AnalysePlaceholders ==
    /\ pc = "analyse"
    /\ LET r == analyse_placeholders(raw_sql)
       IN /\ normalised_sql' = r.normalised_sql
          /\ required_named_params' = r.named_params
          /\ positional_count' = r.positional_count
          /\ exc' = r.exc
          /\ pc' = IF r.exc = NoExc THEN "validate" ELSE "raised"
    /\ UNCHANGED <<inputs, arguments, target, params, config, connection,
                   cursor, driver, result, view_locals>>

\* a faulty variant of ValidateParams: the parameters are not validated before the
\* connection is opened
ValidateParamsSkipped ==
    /\ pc = "validate"
    /\ pc' = "config"
    /\ UNCHANGED <<inputs, arguments, target, analysed, params, config,
                   connection, cursor, driver, exc, result, view_locals>>

\* line 249
ValidateParams ==
    /\ pc = "validate"
    /\ LET r == _validate_params(normalised_sql, required_named_params,
                                 positional_count, params)
       IN /\ params' = r.value
          /\ exc' = r.exc
          /\ pc' = IF r.exc = NoExc THEN "config" ELSE "raised"
    /\ UNCHANGED <<inputs, arguments, target, analysed, config, connection,
                   cursor, driver, result, view_locals>>

\* line 251
CollectConfig ==
    /\ pc = "config"
    /\ LET r == _collect_config(environ, target)
       IN /\ config' = r.config
          /\ exc' = r.exc
          /\ pc' = IF r.exc = NoExc THEN "connect" ELSE "raised"
    /\ UNCHANGED <<inputs, arguments, target, analysed, params, connection,
                   cursor, driver, result, view_locals>>

\* a faulty variant of ConnectFailed: a failed connect is handled like a failed
\* statement
ConnectFailedRollsBack(outcome) ==
    /\ driver' = driver \o <<Call("connect", FALSE, None, outcome),
                              Call("rollback", FALSE, None, "ok")>>
    /\ exc' = [Raise("MySQLExecutionError", "execution") EXCEPT !.diag = "connect failed"]
    /\ pc' = "raised"
    /\ UNCHANGED connection

\* lines 264-267, and an exception that is no MySQLError leaving line 254
ConnectFailed(outcome) ==
    /\ driver' = driver \o <<Call("connect", FALSE, None, outcome)>>
    /\ exc' = IF outcome = "MySQLError"
              THEN [Raise("MySQLConnectionError", "connection")
                    EXCEPT !.diag = DriverError("connect").diag]
              ELSE OtherError("connect")
    /\ pc' = "raised"
    /\ UNCHANGED connection

\* lines 253-267
Connect ==
    /\ pc = "connect"
    /\ \E outcome \in DriverOutcomes :
          IF outcome = "ok"
          THEN /\ driver' = driver \o <<Call("connect", FALSE, None, outcome)>>
               /\ connection' = "open"
               /\ pc' = "cursor"
               /\ UNCHANGED exc
          ELSE ConnectFailed(outcome)
    /\ UNCHANGED <<inputs, arguments, target, analysed, params, config, cursor,
                   result, view_locals>>

\* where an exception raised inside the try block of line 269 goes once the
\* with block (if entered) has been left
Handler(e) == IF e.type = "MySQLError" THEN "except" ELSE "finally"

\* line 270: connection.cursor()
OpenCursor ==
    /\ pc = "cursor"
    /\ \E outcome \in DriverOutcomes :
          /\ driver' = driver \o <<Call("cursor", FALSE, None, outcome)>>
          /\ IF outcome = "ok"
             THEN pc' = "execute" /\ UNCHANGED exc
             ELSE exc' = Thrown(outcome, "cursor") /\ pc' = Handler(exc')
    /\ UNCHANGED <<inputs, arguments, target, analysed, params, config,
                   connection, cursor, result, view_locals>>

\* a faulty variant of ExecuteCall: the parameter argument is always passed
ExecuteCallAlwaysArgs(sql, bound, outcome) == Call("execute", TRUE, bound, outcome)

\* lines 271-274: the call cursor.execute receives
ExecuteCall(sql, bound, outcome) ==
    IF Truthy(bound) THEN Call("execute", TRUE, bound, outcome)
    ELSE Call("execute", FALSE, None, outcome)

\* lines 271-274
Execute ==
    /\ pc = "execute"
    /\ \E outcome \in DriverOutcomes :
          /\ driver' = driver \o <<ExecuteCall(normalised_sql, params, outcome)>>
          /\ IF outcome = "ok"
             THEN /\ \E description \in BOOLEAN, affected \in 0..1 :
                        cursor' = [description |-> description,
                                   rowcount |-> affected, lastrowid |-> 0]
                  /\ pc' = IF cursor'.description THEN "fetch" ELSE "commit"
                  /\ UNCHANGED exc
             ELSE /\ exc' = Thrown(outcome, "execute")
                  /\ pc' = "cursor_exit"
                  /\ UNCHANGED cursor
    /\ UNCHANGED <<inputs, arguments, target, analysed, params, config,
                   connection, result, view_locals>>

\* lines 277-278: cursor.fetchall() and the encoding of the rows
Fetch ==
    /\ pc = "fetch"
    /\ \E outcome \in DriverOutcomes :
          /\ driver' = driver \o <<Call("fetchall", FALSE, None, outcome)>>
          /\ IF outcome = "ok"
             THEN /\ \E rows \in 0..1 :
                        result' = [type |-> "result_set", rowcount |-> rows,
                                   lastrowid |-> 0]
                  /\ pc' = "commit"
                  /\ UNCHANGED exc
             ELSE /\ exc' = Thrown(outcome, "fetchall")
                  /\ pc' = "cursor_exit"
                  /\ UNCHANGED result
    /\ UNCHANGED <<inputs, arguments, target, analysed, params, config,
                   connection, cursor, view_locals>>

\* lines 279-280 and 282-285: commit, then return
Commit ==
    /\ pc = "commit"
    /\ \E outcome \in DriverOutcomes :
          /\ driver' = driver \o <<Call("commit", FALSE, None, outcome)>>
          /\ IF outcome = "ok"
             THEN /\ result' = IF cursor.description THEN result
                               ELSE [type |-> "ack", rowcount |-> cursor.rowcount,
                                     lastrowid |-> cursor.lastrowid]
                  /\ UNCHANGED exc
             ELSE /\ exc' = Thrown(outcome, "commit")
                  /\ result' = NoResult
    /\ pc' = "cursor_exit"
    /\ UNCHANGED <<inputs, arguments, target, analysed, params, config,
                   connection, cursor, view_locals>>

\* line 270: leaving the with block closes the cursor, which may read from
\* the connection
CursorExit ==
    /\ pc = "cursor_exit"
    /\ \E outcome \in {"ok", "MySQLError"} :
          /\ driver' = driver \o <<Call("cursor.close", FALSE, None, outcome)>>
          /\ IF outcome = "ok"
             THEN /\ pc' = IF exc = NoExc THEN "finally" ELSE Handler(exc)
                  /\ UNCHANGED <<exc, result>>
             ELSE /\ exc' = DriverError("cursor.close")
                  /\ result' = NoResult
                  /\ pc' = "except"
    /\ UNCHANGED <<inputs, arguments, target, analysed, params, config,
                   connection, cursor, view_locals>>

\* lines 287-291
Rollback ==
    /\ pc = "except"
    /\ \E outcome \in {"ok", "MySQLError"} :
          /\ driver' = driver \o <<Call("rollback", FALSE, None, outcome)>>
          /\ exc' = IF outcome = "ok"
                    THEN [Raise("MySQLExecutionError", "execution")
                          EXCEPT !.diag = exc.diag]
                    ELSE DriverError("rollback")
    /\ pc' = "finally"
    /\ UNCHANGED <<inputs, arguments, target, analysed, params, config,
                   connection, cursor, result, view_locals>>

\* a faulty variant of Close: the connection is closed on the success path only
CloseOnSuccessOnly ==
    /\ pc = "finally"
    /\ IF exc = NoExc
       THEN /\ driver' = driver \o <<Call("close", FALSE, None, "ok")>>
            /\ connection' = "closed"
       ELSE UNCHANGED <<driver, connection>>
    /\ pc' = IF exc = NoExc THEN "returned" ELSE "raised"
    /\ UNCHANGED <<inputs, arguments, target, analysed, params, config, cursor,
                   exc, result, view_locals>>

\* lines 292-293.  pymysql's close ends the session whatever the state of the
\* socket, so the call is taken to complete.
Close ==
    /\ pc = "finally"
    /\ driver' = driver \o <<Call("close", FALSE, None, "ok")>>
    /\ connection' = "closed"
    /\ pc' = IF exc = NoExc THEN "returned" ELSE "raised"
    /\ UNCHANGED <<inputs, arguments, target, analysed, params, config, cursor,
                   exc, result, view_locals>>

(***************************************************************************)
(* SqlRetrieveView.get                                                     *)
(***************************************************************************)
\* lines 45-57, up to the call of execute_raw_sql
ViewPrepare ==
    /\ pc = "view"
    /\ LET a == analyse_placeholders(sql_object.raw)
           t == from_value(PlainStr(sql_object.database))
       IN IF a.exc # NoExc
          THEN /\ exc' = a.exc
               /\ pc' = "raised"
               /\ UNCHANGED <<arguments, target, params, required_params,
                              positional_params_count>>
          ELSE /\ required_params' = sorted(a.named_params)
               /\ positional_params_count' = a.positional_count
               /\ IF t.exc # NoExc
                  THEN /\ exc' = t.exc
                       /\ pc' = "raised"
                       /\ UNCHANGED <<arguments, target, params>>
                  ELSE /\ raw_sql' = sql_object.raw
                       /\ arg_params' =
                            IF a.positional_count # 0
                            THEN IF Len(Values(query_params)) > 0
                                 THEN PyTuple(Values(query_params)) ELSE None
                            ELSE IF Truthy(query_params) THEN query_params ELSE None
                       /\ arg_target' = t.value
                       /\ target' = arg_target'
                       /\ params' = arg_params'
                       /\ pc' = "start"
                       /\ UNCHANGED exc
    /\ UNCHANGED <<inputs, analysed, config, connection, cursor, driver, result,
                   response>>

\* lines 62-70
ValidationErrorBody(e, required, count) ==
    [kind |-> "ValidationError", detail |-> e, required_params |-> required,
     positional_params_count |-> count,
     has_missing_params |-> e.missing_params # <<>>,
     missing_params |-> e.missing_params, data |-> NoResult]

\* lines 58-82: the answer, or the exception the view lets through
ViewRespond ==
    /\ entry = "view"
    /\ pc \in {"returned", "raised"}
    /\ response' =
         IF exc = NoExc
         THEN [NoResponse EXCEPT !.kind = "Response",
                                 !.required_params = required_params,
                                 !.positional_params_count = positional_params_count,
                                 !.data = result]
         ELSE IF exc.type = "MySQLParameterError"
         THEN ValidationErrorBody(exc, required_params, positional_params_count)
         ELSE IF exc.type \in {"MySQLConfigurationError", "MySQLConnectionError",
                               "MySQLExecutionError"}
         THEN [NoResponse EXCEPT !.kind = "APIException", !.detail = exc]
         ELSE [NoResponse EXCEPT !.kind = "unhandled", !.detail = exc]
    /\ pc' = "responded"
    /\ UNCHANGED <<inputs, arguments, target, analysed, params, config,
                   connection, cursor, driver, exc, result, required_params,
                   positional_params_count>>

Next ==
    \/ ViewPrepare
    \/ ResolveTarget
    \/ AnalysePlaceholders
    \/ ValidateParams
    \/ CollectConfig
    \/ Connect
    \/ OpenCursor
    \/ Execute
    \/ Fetch
    \/ Commit
    \/ CursorExit
    \/ Rollback
    \/ Close
    \/ ViewRespond

Spec == Init /\ [][Next]_vars

(***************************************************************************)
(* analyse_placeholders on every SQL text of at most MaxSqlLen characters  *)
(* over the characters the patterns tell apart.                            *)
(***************************************************************************)
SqlChars == {"%", "s", "(", ")", ":", "a"}

InitAnalyse ==
    /\ entry = "service"
    /\ sql_object = [raw |-> <<>>, database |-> ""]
    /\ query_params = None
    /\ raw_sql \in SeqsUpTo(SqlChars, MaxSqlLen)
    /\ arg_params = None
    /\ arg_target = MAIN
    /\ environ = GenericEnv
    /\ InitLocals

NextAnalyse == ResolveTarget \/ AnalysePlaceholders

SpecAnalyse == InitAnalyse /\ [][NextAnalyse]_vars

(***************************************************************************)
(* _collect_config on every environment that sets, sets to the empty       *)
(* string or leaves unset each variable of the three mandatory keys, and   *)
(* sets MYSQL_PORT to an integer, to another text or not at all.           *)
(***************************************************************************)
MandatoryVars(t) == {specific_key(t, k) : k \in Keys3} \cup {generic_key(k) : k \in Keys3}
PortEnvs == {<<>>, "MYSQL_PORT" :> "3307", "MYSQL_PORT" :> "abc", "MYSQL_PORT" :> ""}

InitConfig ==
    /\ \E t \in MySQLDatabase :
          /\ \/ /\ entry = "service"
                /\ sql_object = [raw |-> <<>>, database |-> ""]
                /\ raw_sql = <<"d">>
                /\ arg_target = t
             \/ /\ entry = "view"
                /\ sql_object = [raw |-> <<"d">>, database |-> t.value]
                /\ raw_sql = <<>>
                /\ arg_target = MAIN
          /\ \E c \in [MandatoryVars(t) -> {"unset", "empty", "set"}], port \in PortEnvs :
                environ = EnvOf({k \in DOMAIN c : c[k] = "set"},
                                {k \in DOMAIN c : c[k] = "empty"}) @@ port
    /\ query_params = PyDict(<<>>)
    /\ arg_params = None
    /\ InitLocals

SpecConfig == InitConfig /\ [][Next]_vars

(***************************************************************************)
(* Vocabulary of the properties.                                           *)
(***************************************************************************)
Final == {"returned", "raised", "responded"}
BeforeConfig == {"view", "start", "analyse", "validate", "config"}
Range(q) == {q[i] : i \in 1..Len(q)}
Ops(op) == {i \in 1..Len(driver) : driver[i].op = op}
Failed(op, outcome) ==
    \E i \in Ops(op) : driver[i].outcome = outcome
IsSortedStrict(q) == \A i \in 1..(Len(q) - 1) : StrLess(q[i], q[i + 1])

\* The placeholders of a SQL text as the driver's % formatting reads it: %%
\* is one escaped literal, and what follows it starts a new token.  A token
\* is [kind, end, name].
Token(s, i) ==
    IF s[i] = "%"
    THEN IF i + 1 <= Len(s) /\ s[i + 1] = "%"
         THEN [kind |-> "escape", end |-> i + 1, name |-> <<>>]
         ELSE IF i + 1 <= Len(s) /\ s[i + 1] = "s"
         THEN [kind |-> "positional", end |-> i + 1, name |-> <<>>]
         ELSE IF NAMED_PARAM_PATTERN(s, i) > 0
         THEN [kind |-> "named", end |-> NAMED_PARAM_PATTERN(s, i),
               name |-> SubSeq(s, i + 2, NAMED_PARAM_PATTERN(s, i) - 2)]
         ELSE [kind |-> "text", end |-> i, name |-> <<>>]
    ELSE IF COLON_PARAM_PATTERN(s, i) > 0
    THEN [kind |-> "named", end |-> COLON_PARAM_PATTERN(s, i),
          name |-> SubSeq(s, i + 1, COLON_PARAM_PATTERN(s, i))]
    ELSE [kind |-> "text", end |-> i, name |-> <<>>]

RECURSIVE Tokens(_, _)
Tokens(s, i) ==
    IF i > Len(s) THEN <<>>
    ELSE <<Token(s, i)>> \o Tokens(s, Token(s, i).end + 1)

RealNamed(s) == {t.name : t \in {u \in Range(Tokens(s, 1)) : u.kind = "named"}}
RealPositional(s) ==
    Cardinality({i \in 1..Len(Tokens(s, 1)) : Tokens(s, 1)[i].kind = "positional"})

\* analyse_placeholders has been called on raw_sql
Analysed == pc \notin {"view", "start", "analyse"} /\ from_value(arg_target).exc = NoExc
MixedRaised == exc.type = "MySQLParameterError" /\ exc.msg = "mixed"

(***************************************************************************)
(* C1.  Once pymysql.connect has succeeded, every way out of               *)
(* execute_raw_sql (a result set, an ack, a driver failure followed by the *)
(* rollback, an exception that is no driver failure) closes the            *)
(* connection: the call opens one connection, closes it once, as the last  *)
(* thing it does, and no end state has a connection still open.            *)
(***************************************************************************)
C1_ConnectionAlwaysClosed ==
    pc \in Final =>
        /\ connection # "open"
        /\ Cardinality(Ops("connect")) <= 1
        /\ Failed("connect", "ok") =>
              /\ connection = "closed"
              /\ Cardinality(Ops("close")) = 1
              /\ driver[Len(driver)].op = "close"

\* an exception that is no driver failure, thrown by fetchall, has left the call
C1_Witness ==
    /\ pc = "raised"
    /\ Failed("fetchall", "Exception")
    /\ exc.type = "Exception"
    /\ connection = "closed"

(***************************************************************************)
(* C2.  When analyse_placeholders or _validate_params raises for the       *)
(* arguments of the call, no driver call is ever made (pymysql.connect     *)
(* least of all) and the call ends with a MySQLParameterError.             *)
(***************************************************************************)
ParameterFailure ==
    /\ pc # "view"
    /\ from_value(arg_target).exc = NoExc
    /\ LET a == analyse_placeholders(raw_sql)
       IN \/ a.exc # NoExc
          \/ _validate_params(a.normalised_sql, a.named_params,
                              a.positional_count, arg_params).exc # NoExc

C2_ValidationBeforeConnect ==
    ParameterFailure =>
        /\ driver = <<>>
        /\ connection = "none"
        /\ pc \notin {"config", "returned"}
        /\ pc \in Final => exc.type = "MySQLParameterError"

\* a direct call with the wrong number of positional values has failed
C2_Witness ==
    /\ entry = "service"
    /\ pc = "raised"
    /\ exc.msg = "positional_count_mismatch"
    /\ driver = <<>>

(***************************************************************************)
(* C3.  Whenever execute, fetchall or commit raises a MySQLError, the call *)
(* rolls back and then ends with a MySQLExecutionError: it returns no      *)
(* result and ends with no error of another kind.                          *)
(***************************************************************************)
DriverFailedAfterOpen ==
    \E op \in {"execute", "fetchall", "commit"} : Failed(op, "MySQLError")

C3_DriverFailureIsExecutionError ==
    (pc \in Final /\ DriverFailedAfterOpen) =>
        /\ Ops("rollback") # {}
        /\ result = NoResult
        /\ exc.type = "MySQLExecutionError"

(***************************************************************************)
(* C4.  When pymysql.connect raises a MySQLError the call ends at once     *)
(* with a MySQLConnectionError carrying the driver's diagnostic: connect   *)
(* is the only driver call made, so nothing is executed, committed or      *)
(* rolled back.                                                            *)
(***************************************************************************)
C4_ConnectFailureIsConnectionError ==
    /\ driver # <<>> => driver[1].op = "connect"
    /\ Failed("connect", "MySQLError") =>
          /\ Len(driver) = 1
          /\ connection = "none"
          /\ pc \in {"raised", "responded"}
          /\ exc.type = "MySQLConnectionError"
          /\ exc.diag = DriverError("connect").diag

\* the view has answered a call whose connect was refused
C4_Witness ==
    /\ Failed("connect", "MySQLError")
    /\ pc = "responded"
    /\ response.kind = "APIException"

(***************************************************************************)
(* C5.  analyse_placeholders raises the mixed-style error for every SQL    *)
(* text with a named and a positional placeholder, in either order; a      *)
(* result never has both a named set and a positional count; a text with   *)
(* neither style gives the empty set and the count 0.                      *)
(***************************************************************************)
C5_MixedAlwaysRejected ==
    Analysed =>
        /\ (RealNamed(raw_sql) # {} /\ RealPositional(raw_sql) > 0) => MixedRaised
        /\ ~MixedRaised => (required_named_params = {} \/ positional_count = 0)
        /\ (RealNamed(raw_sql) = {} /\ RealPositional(raw_sql) = 0) =>
              /\ ~MixedRaised
              /\ required_named_params = {}
              /\ positional_count = 0

(***************************************************************************)
(* C8.  An escaped %% is never counted: the positional count is the number *)
(* of %s that are not part of an escaped %% (a %s right after a %% is      *)
(* counted), and a %% followed by (name)s adds nothing to the named set.   *)
(***************************************************************************)
C8_EscapedNeverCounted ==
    (Analysed /\ ~MixedRaised) =>
        /\ positional_count = RealPositional(raw_sql)
        /\ required_named_params = RealNamed(raw_sql)

(***************************************************************************)
(* C6.  With positional placeholders, _validate_params returns exactly     *)
(* when params is a list, a tuple or a mapping of positional_count         *)
(* elements, and returns the values as a tuple in iteration order.         *)
(* Absent params fail naming the expected count and that nothing was sent, *)
(* a wrong number of elements fails naming the expected and the received   *)
(* count, and a value that is neither a mapping nor a list or tuple (a     *)
(* string) fails with an error about its shape that names no count.        *)
(***************************************************************************)
\* _validate_params has been called in positional mode
PositionalMode == positional_count > 0 /\ pc # "validate"
ParameterError == exc.type = "MySQLParameterError"
FitsPositional(p, n) == p.kind \in {"dict", "list", "tuple"} /\ Len(p.items) = n

NamedMode == required_named_params # {} /\ positional_count = 0 /\ pc # "validate"
AbsentNames(p) ==
    IF p.kind = "dict" THEN required_named_params \ Keys(p) ELSE required_named_params

IsSet(name) == name \in DOMAIN environ /\ environ[name] # ""
Resolved(t, k) ==
    IF IsSet("MYSQL_" \o t.name \o "_" \o k) THEN <<environ["MYSQL_" \o t.name \o "_" \o k]>>
    ELSE IF IsSet("MYSQL_" \o k) THEN <<environ["MYSQL_" \o k]>>
    ELSE <<>>
Unresolved(t) == {k \in Keys3 : Resolved(t, k) = <<>>}
\* _collect_config has been called
Configured == pc \notin BeforeConfig /\ ~ParameterError /\ exc.msg # "unknown_database"

C9_MissingConfigListed ==
    Configured =>
        IF Unresolved(target) # {}
        THEN /\ pc \in {"raised", "responded"}
             /\ exc.type = "MySQLConfigurationError"
             /\ exc.msg = "incomplete"
             /\ Range(exc.env_names) =
                   UNION {{"MYSQL_" \o target.name \o "_" \o k, "MYSQL_" \o k} :
                             k \in Unresolved(target)}
             /\ Len(exc.env_names) = 2 * Cardinality(Unresolved(target))
             /\ driver = <<>>
        ELSE /\ exc.msg # "incomplete"
             /\ exc.msg # "port_not_integer" =>
                   /\ config.host = Resolved(target, "HOST")[1]
                   /\ config.user = Resolved(target, "USER")[1]
                   /\ config.database = Resolved(target, "DATABASE")[1]

\* HOST and DATABASE resolve to nothing, USER resolves to the target's own
\* variable although the generic one is set too
C9_Witness ==
    /\ Configured
    /\ Unresolved(target) = {"HOST", "DATABASE"}
    /\ IsSet("MYSQL_LOG_USER")
    /\ IsSet("MYSQL_USER")
    /\ "MYSQL_HOST" \in DOMAIN environ
    /\ Len(exc.env_names) = 4

(***************************************************************************)
(* C10.  cursor.execute receives a parameter argument exactly when the     *)
(* analysed statement has a placeholder, and then receives the validated   *)
(* parameters, which are not empty; a statement without placeholders is    *)
(* executed with no parameter argument at all.                             *)
(***************************************************************************)
C10_ArgsOnlyWithPlaceholders ==
    \A i \in Ops("execute") :
        LET bound == _validate_params(normalised_sql, required_named_params,
                                      positional_count, arg_params).value
        IN /\ driver[i].has_args <=>
                 (required_named_params # {} \/ positional_count # 0)
           /\ driver[i].has_args =>
                 /\ driver[i].args = bound
                 /\ driver[i].args.kind # "None"
                 /\ Len(driver[i].args.items) > 0
           /\ ~driver[i].has_args => driver[i].args = None

\* a statement with named placeholders was executed with its mapping
C10_Witness ==
    \E i \in Ops("execute") :
        /\ driver[i].has_args
        /\ driver[i].args.kind = "dict"
        /\ required_named_params = {<<"a">>, <<"b">>}

====
